---------------------------- MODULE Spec2Model ----------------------------
(***************************************************************************)
(* Model of the Open Floor CLI client: the session object                  *)
(* (src/openfloor_client.py, class OpenFloorClient) and the interactive    *)
(* command loop built on it (src/cli_client.py, class OpenFloorCLI).       *)
(*                                                                         *)
(* JSON values (and the Python values parsed from them) are tagged         *)
(* records.  A dict is a record with a fixed set of keys in which a key    *)
(* the dict does not have holds Absent, so that "key in dict" and          *)
(* dict.get(key, default) can tell an absent key from an empty value.      *)
(* A multi-line string built by '\n'.join(lines) is the sequence of its    *)
(* lines.  The emoji of the printed texts are left out of the strings.     *)
(***************************************************************************)
EXTENDS Integers, Sequences, FiniteSets, TLC

VARIABLES
    pc,                 \* where the caller is: "ready"/"returned"/"raised"/"formatted" (direct use), "main"/"chat"/"done" (interactive loop)
    conversation_id,    \* OpenFloorClient.conversation_id
    speaker_uri,        \* OpenFloorClient.speaker_uri
    current_agent_url,  \* OpenFloorCLI.current_agent_url
    chat_url,           \* the agent_url argument of the running cmd_chat
    resp,               \* direct use: the outcome of the HTTP exchange the agent gives
    lastOp,             \* the session operation the last step called, "none" if it called none
    result,             \* what that operation returned
    exc,                \* the exception caught at that operation's boundary, "none" if none
    raised,             \* the exception that left that operation, "none" if none
    posts,              \* the requests.post calls that operation made, in order
    out,                \* the lines the CLI printed in the last step
    lastCmd,            \* the last manifest/chat command line and what the loop did with it
    lastUsedUrl,        \* history: URL of the most recent manifest or chat command that ran
    lastGoodUrl,        \* history: URL of the most recent chat command or displayed manifest
    endCause            \* why the interactive loop ended, "none" while it runs

vars == <<pc, conversation_id, speaker_uri, current_agent_url, chat_url, resp,
          lastOp, result, exc, raised, posts, out, lastCmd, lastUsedUrl,
          lastGoodUrl, endCause>>

(***************************************************************************)
(* Bounds                                                                  *)
(***************************************************************************)
MaxEvents == 2          \* longest inbound event list, direct use of the session
MaxCliEvents == 1       \* longest inbound event list, interactive loop

(***************************************************************************)
(* Python / JSON values                                                    *)
(***************************************************************************)
Absent == [t |-> "absent"]
None == [t |-> "null"]
JStr(s) == [t |-> "str", s |-> s]
JNum(n) == [t |-> "num", n |-> n]
JList(l) == [t |-> "list", l |-> l]
JDict(d) == [t |-> "dict", d |-> d]

IsDict(v) == v.t = "dict"

\* dict.get(key, default): AttributeError on anything that is not a dict
\* is raised by the callers, which test IsDict first.
Get(v, key, default) == IF v.d[key] = Absent THEN default ELSE v.d[key]

\* key in dict
Has(v, key) == v.d[key] # Absent

\* Python truth value of a parsed JSON value
Truthy(v) ==
    CASE v.t = "null" -> FALSE
      [] v.t = "absent" -> FALSE
      [] v.t = "str" -> v.s # ""
      [] v.t = "num" -> v.n # 0
      [] v.t = "list" -> v.l # <<>>
      [] v.t = "dict" -> \E k \in DOMAIN v.d : v.d[k] # Absent

Digit(d) ==
    CASE d = 0 -> "0" [] d = 1 -> "1" [] d = 2 -> "2" [] d = 3 -> "3"
      [] d = 4 -> "4" [] d = 5 -> "5" [] d = 6 -> "6" [] d = 7 -> "7"
      [] d = 8 -> "8" [] d = 9 -> "9"

RECURSIVE IntStr(_)
IntStr(n) == IF n < 10 THEN Digit(n) ELSE IntStr(n \div 10) \o Digit(n % 10)

\* str(v) for a scalar
PyStr(v) ==
    CASE v.t = "str" -> v.s
      [] v.t = "num" -> IntStr(v.n)
      [] v.t = "null" -> "None"

\* sep.join(strs)
RECURSIVE Join(_, _)
Join(strs, sep) ==
    IF strs = <<>> THEN ""
    ELSE IF Len(strs) = 1 THEN strs[1]
    ELSE strs[1] \o sep \o Join(Tail(strs), sep)

Range(s) == {s[i] : i \in DOMAIN s}

\* F(v) with v computed once: a local variable assignment followed by its uses
With(v, F(_)) == CHOOSE r \in {F(x) : x \in {v}} : TRUE

RECURSIVE SeqsUpTo(_, _)
SeqsUpTo(S, n) ==
    IF n = 0 THEN {<<>>}
    ELSE LET shorter == SeqsUpTo(S, n - 1)
         IN  shorter \cup {Append(q, e) : q \in {r \in shorter : Len(r) = n - 1}, e \in S}


(***************************************************************************)
(* Exceptions.  An operation's outcome is [raise, ret]: the exception that *)
(* leaves it ("none" if it returns) and the value it returns.              *)
(***************************************************************************)
Ret(v) == [raise |-> "none", ret |-> v]
Raise(e) == [raise |-> e, ret |-> None]

\* requests.exceptions.RequestException and its subclasses
IsRequestException(e) == e \in {"ConnectionError", "Timeout", "HTTPError"}

\* "except Exception" catches every class but the BaseException-only ones
\* (KeyboardInterrupt).
IsException(e) ==
    e \in {"Exception", "ConnectionError", "Timeout", "HTTPError",
           "JSONDecodeError", "AttributeError", "TypeError"}

(***************************************************************************)
(* Inbound JSON shapes                                                     *)
(***************************************************************************)
EmptyParameters == JDict([servicingManifests |-> Absent, dialogEvent |-> Absent])
EmptyDialogEvent == JDict([features |-> Absent])
EmptyFeatures == JDict([text |-> Absent])
EmptyTextFeature == JDict([values |-> Absent, tokens |-> Absent, value |-> Absent])
EmptyIdentification ==
    JDict([conversationalName |-> Absent, organization |-> Absent,
           synopsis |-> Absent, speakerUri |-> Absent])

Strs(q) == JList(IF q = <<>> THEN <<>> ELSE [i \in 1..Len(q) |-> JStr(q[i])])

Ident(n, o, s, u) ==
    JDict([conversationalName |-> n, organization |-> o, synopsis |-> s, speakerUri |-> u])
Cap(k, d) == JDict([keyphrases |-> k, descriptions |-> d])
Manifest(i, c) == JDict([identification |-> i, capabilities |-> c])

M_full ==
    Manifest(Ident(JStr("Bot"), JStr("Org"), JStr("Syn"), JStr("agent:1")),
             JList(<<Cap(Strs(<<"k1", "k2">>), Strs(<<"d1", "d2">>))>>))
M_partial == Manifest(Ident(JStr("Bot"), Absent, Absent, Absent), Absent)
M_noId == Manifest(Absent, JList(<<Cap(Absent, Absent)>>))
M_emptyId == Manifest(EmptyIdentification, JList(<<>>))
M_junk == JStr("junk")
M_badCap == Manifest(Absent, JList(<<JStr("junk")>>))

InEvent(type, parameters) == JDict([eventType |-> type, parameters |-> parameters])
Publish(manifests) ==
    InEvent(JStr("publishManifests"),
            JDict([servicingManifests |-> manifests, dialogEvent |-> Absent]))
TextFeature(values, tokens, value) ==
    JDict([values |-> values, tokens |-> tokens, value |-> value])
Utter(text) ==
    InEvent(JStr("utterance"),
            JDict([servicingManifests |-> Absent,
                   dialogEvent |-> JDict([features |-> JDict([text |-> text])])]))
Tok(v) == JDict([value |-> v])
TokAB == JList(<<Tok(JStr("a")), Tok(Absent), Tok(JStr("b"))>>)

\* events that say nothing to either operation, and entries that are no events
OtherEvents ==
    { InEvent(JStr("bye"), Absent),
      InEvent(Absent, Absent),
      JStr("junk") }

PublishEvents ==
    { Publish(Absent),
      Publish(JList(<<>>)),
      Publish(JList(<<M_full>>)),
      Publish(JList(<<M_noId>>)),
      Publish(JList(<<M_partial, M_emptyId>>)),
      Publish(JList(<<M_junk>>)),
      Publish(JList(<<M_badCap>>)),
      InEvent(JStr("publishManifests"), Absent),
      InEvent(JStr("publishManifests"), None) }

UtteranceEvents ==
    { Utter(TextFeature(Strs(<<"hi", "yo">>), Absent, Absent)),
      Utter(TextFeature(Strs(<<"hi">>), TokAB, JStr("v"))),
      Utter(TextFeature(Strs(<<>>), TokAB, JStr("v"))),
      Utter(TextFeature(Strs(<<"">>), TokAB, JStr("v"))),
      Utter(TextFeature(Absent, TokAB, JStr("v"))),
      Utter(TextFeature(Absent, JList(<<>>), JStr("v"))),
      Utter(TextFeature(Absent, JList(<<Tok(Absent)>>), JStr("v"))),
      Utter(TextFeature(Absent, Absent, JNum(10))),
      Utter(TextFeature(Absent, Absent, Absent)),
      Utter(Absent),
      InEvent(JStr("utterance"), Absent),
      InEvent(JStr("utterance"),
              JDict([servicingManifests |-> Absent, dialogEvent |-> None])) }

\* the events an agent may answer a manifest request / an utterance with
ManifestReplyEvents == PublishEvents \cup OtherEvents \cup {Utter(TextFeature(Strs(<<"hi">>), Absent, Absent))}
ChatReplyEvents == UtteranceEvents \cup OtherEvents \cup {Publish(JList(<<M_full>>))}

Wrapped(events) == JDict([openFloor |-> JDict([events |-> events])])

\* response bodies that are JSON; E is the set of events the lists draw from
Bodies(E, n) ==
    { Wrapped(JList(q)) : q \in SeqsUpTo(E, n) }
      \cup { Wrapped(Absent), Wrapped(None),
             JDict([openFloor |-> JStr("junk")]),
             JDict([openFloor |-> Absent]),
             JList(<<>>), JList(<<JStr("openFloor")>>), JNum(7) }

NotJson == [t |-> "notjson"]

Http(status, body) == [k |-> "http", status |-> status, body |-> body]

\* the outcomes of one HTTP exchange, with event lists of at most n events
Outcomes(E, n) ==
    { [k |-> "neterr"], [k |-> "timeout"], [k |-> "interrupt"] }
      \cup { Http(404, NotJson), Http(503, NotJson), Http(204, NotJson), Http(200, NotJson) }
      \cup { Http(200, b) : b \in Bodies(E, n) }
      \cup { Http(300, b) : b \in Bodies(E, 1) }


(***************************************************************************)
(* The session: class OpenFloorClient                                      *)
(***************************************************************************)
Urls == {"http://a", "http://b"}

\* what uuid4().hex[:8] can give the constructor
SessionConvIds == {"conv_1a2b3c4d", "conv_5e6f7a8b"}

\* the id openfloor's Conversation() gives a conversation built with no
\* argument: a value of the library's own making, a fresh one at each call
LibraryConvIds == {"conv:lib-1", "conv:lib-2"}

GetManifestsEvent(agent_url) ==
    [eventType |-> "getManifests", to |-> [serviceUrl |-> agent_url]]

UtteranceEvent(speaker, agent_url, message) ==
    [eventType |-> "utterance",
     to |-> [serviceUrl |-> agent_url],
     parameters |->
        [dialogEvent |->
            [speakerUri |-> speaker,
             features |-> [text |-> [values |-> <<message>>]]]]]

\* _create_envelope; cid is the id Conversation() came with
create_envelope(speaker, cid, events) ==
    [conversation |-> [id |-> cid],
     sender |-> [speakerUri |-> speaker],
     events |-> events]

\* response.raise_for_status(): HTTPError for a 4xx or 5xx status
raise_for_status(status) ==
    IF status >= 400 /\ status < 600 THEN "HTTPError" ELSE "none"

\* requests.post(...), raise_for_status(), response.json() (lines 59-70)
HttpExchange(outcome) ==
    CASE outcome.k = "neterr" -> Raise("ConnectionError")
      [] outcome.k = "timeout" -> Raise("Timeout")
      [] outcome.k = "interrupt" -> Raise("KeyboardInterrupt")
      [] outcome.k = "http" ->
            IF raise_for_status(outcome.status) # "none"
            THEN Raise(raise_for_status(outcome.status))
            ELSE IF outcome.body = NotJson THEN Raise("JSONDecodeError")
            ELSE Ret(outcome.body)

\* a session that posts again after the first attempt
PostsOfWithRetry(envelope, target_url) ==
    << [url |-> target_url, json |-> [openFloor |-> envelope]],
       [url |-> target_url, json |-> [openFloor |-> envelope]] >>

\* the requests.post calls _send_envelope makes
PostsOf(envelope, target_url) ==
    << [url |-> target_url, json |-> [openFloor |-> envelope]] >>

\* _send_envelope: [raise, ret, posts]
send_envelope(envelope, target_url, outcome) ==
    With(HttpExchange(outcome), LAMBDA got :
        IF IsRequestException(got.raise) \/ got.raise = "JSONDecodeError"
        THEN [raise |-> "Exception", ret |-> None, posts |-> PostsOf(envelope, target_url)]
        ELSE [raise |-> got.raise, ret |-> got.ret, posts |-> PostsOf(envelope, target_url)])

\* 'openFloor' in response_data: "yes", "no", or the exception it raises
InWrapper(response_data) ==
    CASE response_data.t = "dict" -> IF Has(response_data, "openFloor") THEN "yes" ELSE "no"
      [] response_data.t = "list" ->
            IF JStr("openFloor") \in Range(response_data.l) THEN "yes" ELSE "no"
      [] OTHER -> "TypeError"

\* a loop that returns the list of the first publishManifests event, empty or not
ReturnsAnyManifests(manifests) == TRUE

\* what get_manifest does with an event's manifest list (lines 106-108):
\* TRUE if it returns it
ReturnsManifests(manifests) == Truthy(manifests)

\* a session for which no manifests is a failure
NoManifestsIsNone == None

\* what get_manifest returns when no event made it return (line 111)
NoManifests == JList(<<>>)

\* the for loop of get_manifest from event i on (lines 101-111)
RECURSIVE ManifestLoop(_, _)
ManifestLoop(events, i) ==
    IF i > Len(events) THEN Ret(NoManifests)
    ELSE LET event == events[i] IN
         IF ~IsDict(event) THEN Raise("AttributeError")
         ELSE IF Get(event, "eventType", None) # JStr("publishManifests")
              THEN ManifestLoop(events, i + 1)
         ELSE LET parameters == Get(event, "parameters", EmptyParameters) IN
              IF ~IsDict(parameters) THEN Raise("AttributeError")
              ELSE LET manifests == Get(parameters, "servicingManifests", JList(<<>>)) IN
                   IF ReturnsManifests(manifests) THEN Ret(manifests)
                   ELSE ManifestLoop(events, i + 1)

\* opening the wrapper (lines 97-99, 150-152): [raise, ret, events]; ret is
\* meaningful when events is Absent
OpenWrapper(response_data) ==
    LET no(e, v) == [raise |-> e, ret |-> v, events |-> Absent] IN
    With(InWrapper(response_data), LAMBDA present :
        CASE present = "TypeError" -> no("TypeError", None)
          [] present = "no" -> no("none", None)
          [] present = "yes" ->
                IF ~IsDict(response_data) THEN no("TypeError", None)
                ELSE LET envelope_data == response_data.d["openFloor"] IN
                     IF ~IsDict(envelope_data) THEN no("AttributeError", None)
                     ELSE LET events == Get(envelope_data, "events", JList(<<>>)) IN
                          IF events.t # "list" THEN no("TypeError", None)
                          ELSE [raise |-> "none", ret |-> None, events |-> events])

\* lines 96-114
ParseManifests(response_data) ==
    With(OpenWrapper(response_data), LAMBDA w :
        IF w.events = Absent THEN [raise |-> w.raise, ret |-> w.ret]
        ELSE ManifestLoop(w.events.l, 1))

\* a boundary that catches only the errors _send_envelope wraps
CaughtOnlyNetworkErrors(e) == e = "Exception"

\* the except clause at the boundary of get_manifest and send_message
CaughtAtBoundary(e) == IsException(e)

\* try ... except Exception: return None  (lines 86, 116-118; 129, 180-182)
\* body is the outcome of the statements inside the try, made the posts
Boundary(body, made) ==
    IF body.raise = "none"
    THEN [ret |-> body.ret, raise |-> "none", exc |-> "none", posts |-> made]
    ELSE IF CaughtAtBoundary(body.raise)
    THEN [ret |-> None, raise |-> "none", exc |-> body.raise, posts |-> made]
    ELSE [ret |-> None, raise |-> body.raise, exc |-> "none", posts |-> made]

\* get_manifest: [ret, raise, exc, posts]
get_manifest(speaker, cid, agent_url, outcome) ==
    LET envelope == create_envelope(speaker, cid, <<GetManifestsEvent(agent_url)>>) IN
    With(send_envelope(envelope, agent_url, outcome), LAMBDA sent :
        IF sent.raise # "none" THEN Boundary(Raise(sent.raise), sent.posts)
        ELSE With(ParseManifests(sent.ret), LAMBDA parsed : Boundary(parsed, sent.posts)))


\* an extraction that tries the tokens before the values
ExtractTextTokensFirst(text_feature) ==
    IF Has(text_feature, "tokens") /\ Truthy(text_feature.d["tokens"])
    THEN LET tokens == text_feature.d["tokens"].l
             withValue == SelectSeq(tokens, LAMBDA token : Has(token, "value"))
         IN  JStr(Join([i \in 1..Len(withValue) |-> PyStr(Get(withValue[i], "value", JStr("")))], ""))
    ELSE IF Has(text_feature, "values") /\ Truthy(text_feature.d["values"])
    THEN text_feature.d["values"].l[1]
    ELSE JStr(PyStr(Get(text_feature, "value", JStr(""))))

\* the three formats of the text feature (lines 162-168)
ExtractText(text_feature) ==
    IF Has(text_feature, "values") /\ Truthy(text_feature.d["values"])
    THEN text_feature.d["values"].l[1]
    ELSE IF Has(text_feature, "tokens") /\ Truthy(text_feature.d["tokens"])
    THEN LET tokens == text_feature.d["tokens"].l
             withValue == SelectSeq(tokens, LAMBDA token : Has(token, "value"))
         IN  JStr(Join([i \in 1..Len(withValue) |-> PyStr(Get(withValue[i], "value", JStr("")))], ""))
    ELSE JStr(PyStr(Get(text_feature, "value", JStr(""))))

\* a loop that returns the text of the first utterance event, empty or not
ReturnsAnyText(response_text) == TRUE

\* what send_message does with an event's text (lines 170-172): TRUE if it
\* returns it
ReturnsText(response_text) == Truthy(response_text)

\* what send_message returns when no event made it return (line 175)
NoResponse == JStr("Agent sent no response")

\* the for loop of send_message from event i on (lines 154-175)
RECURSIVE UtteranceLoop(_, _)
UtteranceLoop(events, i) ==
    IF i > Len(events) THEN Ret(NoResponse)
    ELSE LET event == events[i] IN
         IF ~IsDict(event) THEN Raise("AttributeError")
         ELSE IF Get(event, "eventType", None) # JStr("utterance")
              THEN UtteranceLoop(events, i + 1)
         ELSE LET parameters == Get(event, "parameters", EmptyParameters) IN
              IF ~IsDict(parameters) THEN Raise("AttributeError")
              ELSE LET dialog_event == Get(parameters, "dialogEvent", EmptyDialogEvent) IN
              IF ~IsDict(dialog_event) THEN Raise("AttributeError")
              ELSE LET features == Get(dialog_event, "features", EmptyFeatures) IN
              IF ~IsDict(features) THEN Raise("AttributeError")
              ELSE LET text_feature == Get(features, "text", EmptyTextFeature) IN
              IF ~IsDict(text_feature) THEN Raise("TypeError")
              ELSE With(ExtractText(text_feature), LAMBDA response_text :
                   IF ReturnsText(response_text) THEN Ret(response_text)
                   ELSE UtteranceLoop(events, i + 1))

\* lines 149-178
ParseUtterance(response_data) ==
    With(OpenWrapper(response_data), LAMBDA w :
        IF w.events = Absent THEN [raise |-> w.raise, ret |-> w.ret]
        ELSE UtteranceLoop(w.events.l, 1))

\* send_message: [ret, raise, exc, posts]
send_message(speaker, cid, agent_url, message, outcome) ==
    LET envelope == create_envelope(speaker, cid, <<UtteranceEvent(speaker, agent_url, message)>>) IN
    With(send_envelope(envelope, agent_url, outcome), LAMBDA sent :
        IF sent.raise # "none" THEN Boundary(Raise(sent.raise), sent.posts)
        ELSE With(ParseUtterance(sent.ret), LAMBDA parsed : Boundary(parsed, sent.posts)))

\* a formatter that prints the identification lines for every manifest
IdentificationLinesAlways(manifest) ==
    LET identification == Get(manifest, "identification", EmptyIdentification) IN
    << "  Name: " \o PyStr(Get(identification, "conversationalName", JStr("Unknown"))),
       "  Organization: " \o PyStr(Get(identification, "organization", JStr("Unknown"))),
       "  Description: " \o PyStr(Get(identification, "synopsis", JStr("No description"))),
       "  Speaker URI: " \o PyStr(Get(identification, "speakerUri", JStr("Unknown"))) >>

\* the identification lines of one manifest (lines 195-200)
IdentificationLines(manifest) ==
    LET identification == Get(manifest, "identification", EmptyIdentification) IN
    IF Truthy(identification)
    THEN << "  Name: " \o PyStr(Get(identification, "conversationalName", JStr("Unknown"))),
            "  Organization: " \o PyStr(Get(identification, "organization", JStr("Unknown"))),
            "  Description: " \o PyStr(Get(identification, "synopsis", JStr("No description"))),
            "  Speaker URI: " \o PyStr(Get(identification, "speakerUri", JStr("Unknown"))) >>
    ELSE << >>

\* the lines of capability j (lines 207-210); the capability is a dict
CapabilityLines(capability, j) ==
    LET keyphrases == Get(capability, "keyphrases", JList(<<>>)).l
        descriptions == Get(capability, "descriptions", JList(<<>>))
    IN  << "    " \o IntStr(j) \o ". Keywords: "
              \o Join([k \in 1..Len(keyphrases) |-> PyStr(keyphrases[k])], ", ") >>
        \o (IF Truthy(descriptions)
            THEN << "       Description: " \o PyStr(descriptions.l[1]) >>
            ELSE << >>)

\* the capability loop from capability j on (lines 206-210): [raise, lines]
RECURSIVE CapabilitiesLoop(_, _)
CapabilitiesLoop(capabilities, j) ==
    IF j > Len(capabilities) THEN [raise |-> "none", lines |-> << >>]
    ELSE IF ~IsDict(capabilities[j]) THEN [raise |-> "AttributeError", lines |-> << >>]
    ELSE With(CapabilitiesLoop(capabilities, j + 1), LAMBDA rest :
         [raise |-> rest.raise, lines |-> CapabilityLines(capabilities[j], j) \o rest.lines])

\* the manifest loop from manifest i on (lines 191-210): [raise, lines]
RECURSIVE FormatLoop(_, _)
FormatLoop(manifests, i) ==
    IF i > Len(manifests) THEN [raise |-> "none", lines |-> << >>]
    ELSE LET manifest == manifests[i] IN
         IF ~IsDict(manifest) THEN [raise |-> "AttributeError", lines |-> << >>]
         ELSE LET capabilities == Get(manifest, "capabilities", JList(<<>>))
                  block(inner) ==
                      [raise |-> inner.raise,
                       lines |-> << "  Capabilities: " \o IntStr(Len(capabilities.l)) >>
                                    \o inner.lines]
              IN  With(IF Truthy(capabilities)
                       THEN With(CapabilitiesLoop(capabilities.l, 1), block)
                       ELSE [raise |-> "none", lines |-> << >>], LAMBDA caps :
                  IF caps.raise # "none" THEN [raise |-> caps.raise, lines |-> << >>]
                  ELSE With(FormatLoop(manifests, i + 1), LAMBDA rest :
                       [raise |-> rest.raise,
                        lines |-> << "", "Manifest " \o IntStr(i) \o ":" >>
                                     \o IdentificationLines(manifest)
                                     \o caps.lines \o rest.lines]))

\* format_manifest: [raise, ret]; ret is the sequence of the lines of the
\* string returned.  The header "\nManifest i:" is an empty line and a line.
format_manifest(manifests) ==
    IF ~Truthy(manifests) THEN [raise |-> "none", ret |-> << "No manifests available" >>]
    ELSE With(FormatLoop(manifests.l, 1), LAMBDA all :
         [raise |-> all.raise, ret |-> IF all.raise = "none" THEN all.lines ELSE << >>])


(***************************************************************************)
(* The command loop: class OpenFloorCLI                                    *)
(***************************************************************************)
NoUrl == "None"                 \* current_agent_url = None
NoResp == [k |-> "unrecorded"]
Messages == {"hello"}
NoCmd ==
    [cmd |-> "none", arg |-> "", used |-> NoUrl, asked |-> FALSE,
     defLast |-> NoUrl, defGood |-> NoUrl]

\* a command that takes every result of get_manifest for manifests
ManifestNeverFailed(manifests) == FALSE

\* "if manifests is None" (cmd_manifest, line 31)
ManifestFailed(manifests) == manifests = None

\* cmd_manifest: [raise, out, url, call]; url is current_agent_url afterwards
cmd_manifest(speaker, cid, cur, agent_url, outcome) ==
    With(get_manifest(speaker, cid, agent_url, outcome), LAMBDA call :
        IF call.raise # "none"
        THEN [raise |-> call.raise, out |-> << >>, url |-> cur, call |-> call]
        ELSE IF ManifestFailed(call.ret)
        THEN [raise |-> "none", out |-> << "Failed to fetch manifest" >>, url |-> cur, call |-> call]
        ELSE With(format_manifest(call.ret), LAMBDA formatted_manifest :
             IF formatted_manifest.raise # "none"
             THEN [raise |-> formatted_manifest.raise, out |-> << >>, url |-> cur, call |-> call]
             ELSE [raise |-> "none", out |-> formatted_manifest.ret, url |-> agent_url, call |-> call]))

\* "if response:" (cmd_chat, line 61)
ShowsReply(response) == Truthy(response)

\* lines 61-64 of cmd_chat
ChatLines(response) ==
    IF ShowsReply(response)
    THEN << "Agent: " \o PyStr(response) >>
    ELSE << "Failed to get response from agent" >>

\* the exceptions run_interactive catches (lines 116-121)
LoopCatches(e) == e \in {"KeyboardInterrupt", "EOFError"}

\* "if self.current_agent_url:" (lines 96, 105)
HasDefault(cur) == cur # NoUrl

Init ==
    /\ pc = "main"
    /\ conversation_id \in SessionConvIds
    /\ speaker_uri = "client:0a1b2c3d"
    /\ current_agent_url = NoUrl
    /\ chat_url = NoUrl
    /\ resp = NoResp
    /\ lastOp = "none"
    /\ result = None
    /\ exc = "none"
    /\ raised = "none"
    /\ posts = << >>
    /\ out = << >>
    /\ lastCmd = NoCmd
    /\ lastUsedUrl = NoUrl
    /\ lastGoodUrl = NoUrl
    /\ endCause = "none"

NoCall ==
    /\ lastOp' = "none"
    /\ result' = None
    /\ exc' = "none"
    /\ raised' = "none"
    /\ posts' = << >>

Session == <<conversation_id, speaker_uri, resp>>
History == <<lastUsedUrl, lastGoodUrl>>

Other == [NoCmd EXCEPT !.cmd = "other", !.defLast = lastUsedUrl, !.defGood = lastGoodUrl]

\* a blank line (lines 82-83)
MainBlank ==
    /\ pc = "main"
    /\ out' = << >>
    /\ lastCmd' = Other
    /\ NoCall
    /\ UNCHANGED <<pc, current_agent_url, chat_url, endCause, Session, History>>

\* quit, exit, bye (lines 89-91)
MainQuit ==
    /\ pc = "main"
    /\ pc' = "done"
    /\ endCause' = "quit"
    /\ out' = << "Goodbye!" >>
    /\ lastCmd' = Other
    /\ NoCall
    /\ UNCHANGED <<current_agent_url, chat_url, Session, History>>

\* help (lines 92-93)
MainHelp ==
    /\ pc = "main"
    /\ out' = << "Commands:" >>
    /\ lastCmd' = Other
    /\ NoCall
    /\ UNCHANGED <<pc, current_agent_url, chat_url, endCause, Session, History>>

\* any other word (lines 112-114)
MainUnknown ==
    /\ pc = "main"
    /\ out' = << "Unknown command", "Type 'help' for available commands" >>
    /\ lastCmd' = Other
    /\ NoCall
    /\ UNCHANGED <<pc, current_agent_url, chat_url, endCause, Session, History>>

\* end of input at the prompt (lines 119-121)
MainEOF ==
    /\ pc = "main"
    /\ LoopCatches("EOFError")
    /\ pc' = "done"
    /\ endCause' = "eof"
    /\ out' = << "", "Goodbye!" >>
    /\ lastCmd' = Other
    /\ NoCall
    /\ UNCHANGED <<current_agent_url, chat_url, Session, History>>

\* Ctrl-C at the prompt (lines 116-118)
MainInterrupt ==
    /\ pc = "main"
    /\ LoopCatches("KeyboardInterrupt")
    /\ pc' = "done"
    /\ endCause' = "interrupt"
    /\ out' = << "", "Goodbye!" >>
    /\ lastCmd' = Other
    /\ NoCall
    /\ UNCHANGED <<current_agent_url, chat_url, Session, History>>

\* a manifest or chat command with no URL and no URL remembered
\* (lines 95-101, 104-110)
AskForUrl(command) ==
    /\ out' = << "Please provide an agent URL" >>
    /\ lastCmd' = [cmd |-> command, arg |-> "", used |-> NoUrl, asked |-> TRUE,
                   defLast |-> lastUsedUrl, defGood |-> lastGoodUrl]
    /\ NoCall
    /\ UNCHANGED <<pc, current_agent_url, chat_url, endCause, Session, History>>

\* manifest [arg] (lines 94-102 and cmd_manifest)
MainManifest(arg, cid, outcome) ==
    /\ pc = "main"
    /\ IF arg = "" /\ ~HasDefault(current_agent_url)
       THEN AskForUrl("manifest")
       ELSE LET url == IF arg = "" THEN current_agent_url ELSE arg
            IN \E r \in {cmd_manifest(speaker_uri, cid, current_agent_url, url, outcome)} :
                LET shown == r.raise = "none" /\ r.call.ret # None IN
                /\ pc' = IF r.raise = "none" THEN "main" ELSE "done"
                /\ endCause' = IF r.raise = "none" THEN "none"
                               ELSE IF r.raise = "KeyboardInterrupt" /\ LoopCatches(r.raise)
                               THEN "interrupt" ELSE "crash"
                /\ out' = (IF arg = "" THEN << "Using last agent: " \o url >> ELSE << >>) \o r.out
                /\ current_agent_url' = r.url
                /\ lastOp' = "get_manifest"
                /\ result' = r.call.ret
                /\ exc' = r.call.exc
                /\ raised' = r.call.raise
                /\ posts' = r.call.posts
                /\ lastCmd' = [cmd |-> "manifest", arg |-> arg, used |-> url, asked |-> FALSE,
                               defLast |-> lastUsedUrl, defGood |-> lastGoodUrl]
                /\ lastUsedUrl' = url
                /\ lastGoodUrl' = IF shown THEN url ELSE lastGoodUrl
                /\ UNCHANGED <<chat_url, Session>>

\* chat [arg] (lines 103-111 and cmd_chat, lines 44-47)
MainChat(arg) ==
    /\ pc = "main"
    /\ IF arg = "" /\ ~HasDefault(current_agent_url)
       THEN AskForUrl("chat")
       ELSE LET url == IF arg = "" THEN current_agent_url ELSE arg IN
            /\ pc' = "chat"
            /\ chat_url' = url
            /\ current_agent_url' = url
            /\ out' = (IF arg = "" THEN << "Using last agent: " \o url >> ELSE << >>)
                        \o << "Starting chat with: " \o url, "Type 'exit' to end the chat session" >>
            /\ lastCmd' = [cmd |-> "chat", arg |-> arg, used |-> url, asked |-> FALSE,
                           defLast |-> lastUsedUrl, defGood |-> lastGoodUrl]
            /\ lastUsedUrl' = url
            /\ lastGoodUrl' = url
            /\ NoCall
            /\ UNCHANGED <<endCause, Session>>

\* a line of the chat (cmd_chat, lines 60-64, and 66-68 for Ctrl-C in the call)
ChatSend(message, cid, outcome) ==
    /\ pc = "chat"
    /\ \E r \in {send_message(speaker_uri, cid, chat_url, message, outcome)} :
       /\ pc' = IF r.raise = "none" THEN "chat" ELSE "main"
       /\ out' = IF r.raise = "none" THEN ChatLines(r.ret) ELSE << "", "Chat session ended" >>
       /\ lastOp' = "send_message"
       /\ result' = r.ret
       /\ exc' = r.exc
       /\ raised' = r.raise
       /\ posts' = r.posts
    /\ lastCmd' = Other
    /\ UNCHANGED <<current_agent_url, chat_url, endCause, Session, History>>

\* exit, quit, bye in the chat (lines 53-55)
ChatExit ==
    /\ pc = "chat"
    /\ pc' = "main"
    /\ out' = << "Chat session ended" >>
    /\ lastCmd' = Other
    /\ NoCall
    /\ UNCHANGED <<current_agent_url, chat_url, endCause, Session, History>>

\* a blank chat line (lines 57-58)
ChatBlank ==
    /\ pc = "chat"
    /\ out' = << >>
    /\ lastCmd' = Other
    /\ NoCall
    /\ UNCHANGED <<pc, current_agent_url, chat_url, endCause, Session, History>>

\* Ctrl-C or end of input at the chat prompt (lines 66-71)
ChatStop ==
    /\ pc = "chat"
    /\ pc' = "main"
    /\ out' = << "", "Chat session ended" >>
    /\ lastCmd' = Other
    /\ NoCall
    /\ UNCHANGED <<current_agent_url, chat_url, endCause, Session, History>>

Next ==
    \/ MainBlank
    \/ MainQuit
    \/ MainHelp
    \/ MainUnknown
    \/ MainEOF
    \/ MainInterrupt
    \/ \E arg \in Urls \cup {""}, cid \in LibraryConvIds,
          outcome \in Outcomes(ManifestReplyEvents, MaxCliEvents) :
            MainManifest(arg, cid, outcome)
    \/ \E arg \in Urls \cup {""} : MainChat(arg)
    \/ \E message \in Messages, cid \in LibraryConvIds,
          outcome \in Outcomes(ChatReplyEvents, MaxCliEvents) :
            ChatSend(message, cid, outcome)
    \/ ChatExit
    \/ ChatBlank
    \/ ChatStop

Spec == Init /\ [][Next]_vars


(***************************************************************************)
(* Direct use of the session: one exchange whose outcome is fixed at the   *)
(* start, one call of get_manifest or send_message on it, and              *)
(* format_manifest on the manifests get_manifest returned.                 *)
(***************************************************************************)
AllOutcomes ==
    Outcomes(ManifestReplyEvents, MaxEvents) \cup Outcomes(ChatReplyEvents, MaxEvents)

InitSession ==
    /\ pc = "ready"
    /\ conversation_id \in SessionConvIds
    /\ speaker_uri = "client:0a1b2c3d"
    /\ current_agent_url = NoUrl
    /\ chat_url = NoUrl
    /\ resp \in AllOutcomes
    /\ lastOp = "none"
    /\ result = None
    /\ exc = "none"
    /\ raised = "none"
    /\ posts = << >>
    /\ out = << >>
    /\ lastCmd = NoCmd
    /\ lastUsedUrl = NoUrl
    /\ lastGoodUrl = NoUrl
    /\ endCause = "none"

Cli == <<current_agent_url, chat_url, lastCmd, lastUsedUrl, lastGoodUrl, endCause>>

Called(op, r) ==
    /\ pc' = IF r.raise = "none" THEN "returned" ELSE "raised"
    /\ lastOp' = op
    /\ result' = r.ret
    /\ exc' = r.exc
    /\ raised' = r.raise
    /\ posts' = r.posts
    /\ UNCHANGED <<out, Session, Cli>>

CallGetManifest(agent_url, cid) ==
    /\ pc = "ready"
    /\ \E r \in {get_manifest(speaker_uri, cid, agent_url, resp)} : Called("get_manifest", r)

CallSendMessage(agent_url, message, cid) ==
    /\ pc = "ready"
    /\ \E r \in {send_message(speaker_uri, cid, agent_url, message, resp)} :
          Called("send_message", r)

CallFormatManifest ==
    /\ pc = "returned"
    /\ lastOp = "get_manifest"
    /\ result # None
    /\ \E f \in {format_manifest(result)} :
          /\ pc' = IF f.raise = "none" THEN "formatted" ELSE "raised"
          /\ out' = f.ret
          /\ raised' = f.raise
    /\ lastOp' = "format_manifest"
    /\ UNCHANGED <<result, exc, posts, Session, Cli>>

NextSession ==
    \/ \E agent_url \in Urls, cid \in LibraryConvIds : CallGetManifest(agent_url, cid)
    \/ \E agent_url \in Urls, message \in Messages, cid \in LibraryConvIds :
          CallSendMessage(agent_url, message, cid)
    \/ CallFormatManifest

SpecSession == InitSession /\ [][NextSession]_vars


(***************************************************************************)
(* Properties of the session operations (checked under SpecSession)        *)
(***************************************************************************)
\* the exchange gave a 2xx response whose body is JSON with the openFloor
\* wrapper around a list of events (an absent list is the empty list)
HasWrapper(o) ==
    /\ o.k = "http"
    /\ o.status \in 200..299
    /\ o.body # NotJson
    /\ IsDict(o.body)
    /\ Has(o.body, "openFloor")
    /\ IsDict(o.body.d["openFloor"])
    /\ Get(o.body.d["openFloor"], "events", JList(<<>>)).t = "list"

EventsOf(o) == Get(o.body.d["openFloor"], "events", JList(<<>>)).l

Tagged(e, tag) == IsDict(e) /\ e.d["eventType"] = JStr(tag)

\* an event object whose parameter bundle and dialog event, when it has
\* them, are objects
WellFormedEvent(e) ==
    /\ IsDict(e)
    /\ \/ e.d["parameters"] = Absent
       \/ /\ IsDict(e.d["parameters"])
          /\ \/ e.d["parameters"].d["dialogEvent"] = Absent
             \/ IsDict(e.d["parameters"].d["dialogEvent"])

WellFormed(o) == HasWrapper(o) /\ \A i \in DOMAIN EventsOf(o) : WellFormedEvent(EventsOf(o)[i])

\* the first index of events at which P holds, 0 if there is none
First(events, P(_)) ==
    IF \E i \in DOMAIN events : P(events[i])
    THEN CHOOSE i \in DOMAIN events : P(events[i]) /\ \A j \in 1..(i - 1) : ~P(events[j])
    ELSE 0

\* the manifest list a publishManifests event carries
ManifestListOf(e) ==
    IF e.d["parameters"] = Absent THEN JList(<<>>)
    ELSE Get(e.d["parameters"], "servicingManifests", JList(<<>>))

\* the text feature an utterance event carries
TextFeatureOf(e) ==
    LET p == e.d["parameters"]
        d == IF p = Absent THEN Absent ELSE p.d["dialogEvent"]
        f == IF d = Absent THEN Absent ELSE d.d["features"]
        x == IF f = Absent THEN Absent ELSE f.d["text"]
    IN  IF x = Absent THEN EmptyTextFeature ELSE x

Returned(op) == pc = "returned" /\ lastOp = op

FaultCaught == exc # "none"

\* the event list is not empty and none of its entries is an event object
NoEventObjects(o) ==
    /\ HasWrapper(o)
    /\ EventsOf(o) # << >>
    /\ \A i \in DOMAIN EventsOf(o) : ~IsDict(EventsOf(o)[i])

C3_AsStated ==
    (Returned("get_manifest") /\ WellFormed(resp)
       /\ First(EventsOf(resp), LAMBDA e : Tagged(e, "publishManifests")) # 0)
    => result = ManifestListOf(EventsOf(resp)[First(EventsOf(resp), LAMBDA e : Tagged(e, "publishManifests"))])

NonEmptyPublish(e) == Tagged(e, "publishManifests") /\ ManifestListOf(e) # JList(<<>>)

\* C3 amended: for a response with the wrapper and well-formed events,
\* get_manifest returns the manifest list of the first publishManifests event
\* whose list is not empty, and the empty list if there is none; a single
\* publishManifests event carrying L yields L.
C3_FirstNonEmptyManifests ==
    (Returned("get_manifest") /\ WellFormed(resp))
    => /\ result = IF First(EventsOf(resp), NonEmptyPublish) = 0 THEN JList(<<>>)
                   ELSE ManifestListOf(EventsOf(resp)[First(EventsOf(resp), NonEmptyPublish)])
       /\ (Len(EventsOf(resp)) = 1 /\ Tagged(EventsOf(resp)[1], "publishManifests"))
             => result = ManifestListOf(EventsOf(resp)[1])

C3_Witness ==
    /\ Returned("get_manifest")
    /\ resp = Http(200, Wrapped(JList(<< Publish(JList(<<>>)), Publish(JList(<<M_full>>)) >>)))
    /\ result = JList(<<M_full>>)

\* the text of a text feature by the three tiers as C4 states them: the
\* first entry of a values list that is present, else the concatenation of
\* the values of a tokens list that is present, else the value as a string
StatedText(tf) ==
    IF Has(tf, "values") /\ tf.d["values"].l # << >> THEN tf.d["values"].l[1].s
    ELSE IF Has(tf, "tokens")
    THEN LET having == SelectSeq(tf.d["tokens"].l, LAMBDA k : k.d["value"] # Absent)
         IN  Join([i \in 1..Len(having) |-> having[i].d["value"].s], "")
    ELSE IF Has(tf, "value") THEN PyStr(tf.d["value"]) ELSE ""

\* C4 as stated: send_message returns the text of the first utterance
\* event, by the first tier that is present.
C4_AsStated ==
    (Returned("send_message") /\ WellFormed(resp)
       /\ First(EventsOf(resp), LAMBDA e : Tagged(e, "utterance")) # 0)
    => result = JStr(StatedText(TextFeatureOf(
                   EventsOf(resp)[First(EventsOf(resp), LAMBDA e : Tagged(e, "utterance"))])))

\* the tiers as amended: a tier applies when its list is present and not empty
TierText(tf) ==
    IF Has(tf, "values") /\ tf.d["values"].l # << >> THEN tf.d["values"].l[1].s
    ELSE IF Has(tf, "tokens") /\ tf.d["tokens"].l # << >>
    THEN LET having == SelectSeq(tf.d["tokens"].l, LAMBDA k : k.d["value"] # Absent)
         IN  Join([i \in 1..Len(having) |-> having[i].d["value"].s], "")
    ELSE IF Has(tf, "value") THEN PyStr(tf.d["value"]) ELSE ""

Speaks(e) == Tagged(e, "utterance") /\ TierText(TextFeatureOf(e)) # ""

\* C4 amended: for a response with the wrapper and well-formed events,
\* send_message returns the text of the first utterance event whose text is
\* not empty, the text being that of the first tier whose list is present
\* and not empty (values: first entry; tokens: the values concatenated), else
\* the value as a string; with no such event it returns the sentinel.
C4_FirstNonEmptyText ==
    (Returned("send_message") /\ WellFormed(resp))
    => result = IF First(EventsOf(resp), Speaks) = 0 THEN JStr("Agent sent no response")
                ELSE JStr(TierText(TextFeatureOf(EventsOf(resp)[First(EventsOf(resp), Speaks)])))

C4_Witness ==
    /\ Returned("send_message")
    /\ resp = Http(200, Wrapped(JList(<< Utter(TextFeature(Strs(<<"">>), TokAB, JStr("v"))),
                                         Utter(TextFeature(Absent, TokAB, JStr("v"))) >>)))
    /\ result = JStr("ab")

\* C5: a response with the wrapper and no event of the expected tag gives
\* the empty list from get_manifest and the sentinel from send_message,
\* never None.
C5_NoMatchIsSuccess ==
    /\ (Returned("get_manifest") /\ WellFormed(resp)
          /\ \A i \in DOMAIN EventsOf(resp) : ~Tagged(EventsOf(resp)[i], "publishManifests"))
       => (result = JList(<<>>) /\ result # None)
    /\ (Returned("send_message") /\ WellFormed(resp)
          /\ \A i \in DOMAIN EventsOf(resp) : ~Tagged(EventsOf(resp)[i], "utterance"))
       => (result = JStr("Agent sent no response") /\ result # None)

C5_Witness ==
    /\ Returned("get_manifest")
    /\ resp = Http(200, Wrapped(JList(<< InEvent(JStr("bye"), Absent) >>)))
    /\ result = JList(<<>>)

DefaultLabelLines ==
    { "  Name: Unknown", "  Organization: Unknown",
      "  Description: No description", "  Speaker URI: Unknown" }

Formatted == lastOp = "format_manifest"

\* one manifest, an object with no identification block
OneWithoutIdentification(manifests) ==
    /\ manifests.t = "list"
    /\ Len(manifests.l) = 1
    /\ IsDict(manifests.l[1])
    /\ manifests.l[1].d["identification"] = Absent

SoundCapabilities(manifest) ==
    \/ manifest.d["capabilities"] = Absent
    \/ \A j \in DOMAIN manifest.d["capabilities"].l : IsDict(manifest.d["capabilities"].l[j])

\* C6 as stated: format_manifest gives "No manifests available" for the
\* empty list, and for one manifest with no identification block an output
\* with the default labels.
C6_AsStated ==
    Formatted =>
       /\ result = JList(<<>>) => out = << "No manifests available" >>
       /\ (OneWithoutIdentification(result) /\ SoundCapabilities(result.l[1]))
             => (pc = "formatted" /\ DefaultLabelLines \subseteq Range(out))

\* C6 amended: format_manifest gives "No manifests available" for the empty
\* list; for one manifest with no identification block (and capabilities
\* that are objects) it does not fail and its output has the manifest header
\* and none of the identification lines; the default labels stand for the
\* fields missing from an identification block that is present and not empty.
C6_DefaultsOnlyInsideIdentification ==
    Formatted =>
       /\ result = JList(<<>>) => (pc = "formatted" /\ out = << "No manifests available" >>)
       /\ (OneWithoutIdentification(result) /\ SoundCapabilities(result.l[1]))
             => /\ pc = "formatted"
                /\ Len(out) >= 2 /\ out[2] = "Manifest 1:"
                /\ DefaultLabelLines \cap Range(out) = {}
       /\ result = JList(<<M_partial, M_emptyId>>)
             => /\ pc = "formatted"
                /\ out = << "", "Manifest 1:", "  Name: Bot", "  Organization: Unknown",
                            "  Description: No description", "  Speaker URI: Unknown",
                            "", "Manifest 2:" >>

C6_Witness ==
    /\ Formatted
    /\ pc = "formatted"
    /\ result = JList(<<M_noId>>)
    /\ out = << "", "Manifest 1:", "  Capabilities: 1", "    1. Keywords: " >>


(***************************************************************************)
(* Properties of the interactive session (checked under Spec)              *)
(***************************************************************************)
Envelopes == {posts[i].json.openFloor : i \in DOMAIN posts}

\* C1: every envelope the session sends carries the conversation id made
\* at construction.
C1_ConversationIdCarried ==
    \A e \in Envelopes : e.conversation.id = conversation_id

\* C9: a call of get_manifest or send_message makes exactly one POST, of an
\* envelope with exactly one event, whatever comes of it; a step that calls
\* neither makes none.
C9_OnePostPerCall ==
    /\ lastOp \in {"get_manifest", "send_message"}
          => (Len(posts) = 1 /\ \A e \in Envelopes : Len(e.events) = 1)
    /\ lastOp = "none" => posts = << >>

C9_Witness ==
    /\ lastOp = "get_manifest"
    /\ exc = "Exception"
    /\ result = None
    /\ Len(posts) = 1
    /\ posts[1].json.openFloor.events = << GetManifestsEvent(posts[1].url) >>

ChatFailureNotice == << "Failed to get response from agent" >>

\* C10: send_message never returns the empty string: it returns None, the
\* sentinel or a non-empty text; the chat loop prints the failure notice
\* exactly when it returned None, and prints the sentinel as a reply.
C10_NeverEmptyText ==
    (lastOp = "send_message" /\ raised = "none")
    => /\ result # JStr("")
       /\ result = None \/ (result.t = "str" /\ result.s # "")
       /\ out = ChatFailureNotice <=> result = None
       /\ result = JStr("Agent sent no response")
             => out = << "Agent: Agent sent no response" >>

C10_Witness ==
    /\ lastOp = "send_message"
    /\ pc = "chat"
    /\ result = JStr("Agent sent no response")
    /\ out = << "Agent: Agent sent no response" >>

WithoutUrl == lastCmd.cmd \in {"manifest", "chat"} /\ lastCmd.arg = ""

\* what a command that ran did with the URL u
RanWith(u) ==
    /\ ~lastCmd.asked
    /\ lastCmd.used = u
    /\ lastCmd.cmd = "manifest" => (lastOp = "get_manifest" /\ posts[1].url = u)
    /\ lastCmd.cmd = "chat" => (pc = "chat" /\ chat_url = u)

\* what a command that asked for a URL did
OnlyAsked ==
    /\ lastCmd.asked
    /\ out = << "Please provide an agent URL" >>
    /\ lastOp = "none"
    /\ posts = << >>
    /\ pc = "main"

\* C7 as stated: a manifest or chat command without a URL uses the URL of
\* the most recent manifest or chat command before it, and asks for a URL
\* if there was none.
C7_AsStated ==
    WithoutUrl => IF lastCmd.defLast = NoUrl THEN OnlyAsked ELSE RanWith(lastCmd.defLast)

\* C7 amended: a manifest or chat command without a URL uses the URL of the
\* most recent chat command or manifest command whose manifests were fetched
\* and displayed before it, and asks for a URL and does nothing else if
\* there was none.
C7_DefaultIsLastGoodUrl ==
    WithoutUrl => IF lastCmd.defGood = NoUrl THEN OnlyAsked ELSE RanWith(lastCmd.defGood)

C7_Witness ==
    /\ WithoutUrl
    /\ lastCmd.cmd = "manifest"
    /\ lastCmd.defGood = "http://a"
    /\ lastCmd.defLast = "http://b"
    /\ lastCmd.used = "http://a"
    /\ posts[1].url = "http://a"

\* C8: the interactive loop ends only on a quit command or on end of input
\* (the user's interrupt at the keyboard is counted with them); no operation,
\* failed or not, ends it.
C8_EndsOnlyOnQuitOrEof ==
    pc = "done" => endCause \in {"quit", "eof", "interrupt"}

=============================================================================
